---- MODULE Spec2Model ----
(***************************************************************************)
(* Model of app/api/whatsapp_integration.py: the two request handlers      *)
(* process_property_query (intent classification in front of the RAG      *)
(* service) and analyze_client_preferences (regex / keyword extraction).  *)
(*                                                                         *)
(* Text is modelled character by character: a Python str is a sequence of *)
(* one-character strings, so that `in`, str.lower() and the regular        *)
(* expressions are computed on the characters as the code computes them.  *)
(* A Python float is modelled exactly as n * 10^(-e) (record [n, e] in    *)
(* normal form); binary rounding of the products is not modelled.         *)
(* A character outside ASCII is written by its code point ("U+00F3").     *)
(* Optional values are sequences of length at most one (None is << >>).   *)
(***************************************************************************)
EXTENDS Integers, Sequences, FiniteSets, TLC

VARIABLES
    qTokens,        \* the fragments the incoming query text is made of
    request,        \* PropertyQuery: [query, conversation_history]
    pc,             \* position of process_property_query
    history,        \* local `history` (lines joined by "\n")
    flags,          \* is_price_query, is_location_query, ...
    result,         \* what ask_mistral_with_context returned
    outcome,        \* PropertyResponse or HTTPException of the request
    calls,          \* upstream calls made so far, in order
    analysis,       \* ClientAnalysis: [query]
    prefPc,         \* position of analyze_client_preferences
    preferences     \* ClientPreferences returned

vars == <<qTokens, request, pc, history, flags, result, outcome, calls,
          analysis, prefPc, preferences>>

queryVars == <<request, pc, history, flags, result, outcome, calls>>
prefVars == <<analysis, prefPc, preferences>>

None == << >>
Some(x) == <<x>>

Min(a, b) == IF a <= b THEN a ELSE b
Max(a, b) == IF a >= b THEN a ELSE b

(***************************************************************************)
(* Text.                                                                   *)
(***************************************************************************)

\* str.lower() on one character (the upper-case letters the inputs use).
LowerChar(c) ==
    CASE c = "A" -> "a" [] c = "C" -> "c" [] c = "H" -> "h" [] c = "I" -> "i"
      [] c = "M" -> "m" [] c = "L" -> "l" [] c = "O" -> "o" [] c = "P" -> "p"
      [] c = "S" -> "s" [] c = "T" -> "t" [] c = "V" -> "v" [] c = "E" -> "e"
      [] c = "R" -> "r" [] c = "Y" -> "y" [] c = "U+00D3" -> "U+00F3"
      [] OTHER -> c

\* str.lower()
Lower(s) == [i \in 1..Len(s) |-> LowerChar(s[i])]

\* s[i:].startswith(w), i counted from 1
StartsWith(s, i, w) ==
    /\ i >= 1
    /\ i + Len(w) - 1 <= Len(s)
    /\ SubSeq(s, i, i + Len(w) - 1) = w

\* `w in s` on strings
Contains(s, w) == \E i \in 1..(Len(s) + 1) : StartsWith(s, i, w)

\* any(word in s for word in words)
AnyIn(words, s) == \E k \in 1..Len(words) : Contains(s, words[k])

Digits == {"0", "1", "2", "3", "4", "5", "6", "7", "8", "9"}

DigitVal(c) ==
    CASE c = "0" -> 0 [] c = "1" -> 1 [] c = "2" -> 2 [] c = "3" -> 3
      [] c = "4" -> 4 [] c = "5" -> 5 [] c = "6" -> 6 [] c = "7" -> 7
      [] c = "8" -> 8 [] c = "9" -> 9

IsDigit(s, i) == i >= 1 /\ i <= Len(s) /\ s[i] \in Digits
IsSpace(s, i) == i >= 1 /\ i <= Len(s) /\ s[i] \in {" ", "\n", "\t"}

\* \d* matched greedily from position i: the position after the run
RECURSIVE DigitsEnd(_, _)
DigitsEnd(s, i) == IF IsDigit(s, i) THEN DigitsEnd(s, i + 1) ELSE i

\* \s* matched greedily from position i: the position after the run
RECURSIVE SpacesEnd(_, _)
SpacesEnd(s, i) == IF IsSpace(s, i) THEN SpacesEnd(s, i + 1) ELSE i

\* (\d+\.?\d*) matched greedily from position i: the position after the
\* number, 0 when no digit stands at i.
NumberEnd(s, i) ==
    LET a == DigitsEnd(s, i)
    IN  IF a = i THEN 0
        ELSE IF a <= Len(s) /\ s[a] = "." THEN DigitsEnd(s, a + 1)
        ELSE a

\* the least element of a set of positions, 0 for the empty set: where the
\* leftmost match of a regular expression starts
Least(S) == IF S = {} THEN 0 ELSE CHOOSE i \in S : \A j \in S : i <= j

(***************************************************************************)
(* Numbers: float(text) and int(text), exact.                              *)
(***************************************************************************)

RECURSIVE Pow10(_)
Pow10(k) == IF k <= 0 THEN 1 ELSE 10 * Pow10(k - 1)

\* the normal form of n * 10^(-e): n carries no trailing zero
RECURSIVE Normal(_)
Normal(v) ==
    IF v.n = 0 THEN [n |-> 0, e |-> 0]
    ELSE IF v.n % 10 = 0 THEN Normal([n |-> v.n \div 10, e |-> v.e - 1])
    ELSE v

\* int(text) for a run of digits
RECURSIVE ParseInt(_)
ParseInt(t) ==
    IF t = << >> THEN 0
    ELSE 10 * ParseInt(SubSeq(t, 1, Len(t) - 1)) + DigitVal(t[Len(t)])

\* float(text) for text matched by \d+\.?\d*
ParseFloat(t) ==
    LET dot == Least({i \in 1..Len(t) : t[i] = "."})
        intPart == IF dot = 0 THEN t ELSE SubSeq(t, 1, dot - 1)
        fracPart == IF dot = 0 THEN << >> ELSE SubSeq(t, dot + 1, Len(t))
    IN  Normal([n |-> ParseInt(intPart \o fracPart), e |-> Len(fracPart)])

\* v * 1000
Times1000(v) == Normal([n |-> v.n, e |-> v.e - 3])
\* v * 0.8
Times08(v) == Normal([n |-> v.n * 8, e |-> v.e + 1])
\* v * 1.2
Times12(v) == Normal([n |-> v.n * 12, e |-> v.e + 1])

(***************************************************************************)
(* The fixed vocabularies of the two handlers.                             *)
(***************************************************************************)

\* is_price_query
PriceWords ==
    << <<"p", "r", "e", "c", "i", "o">>,
       <<"c", "o", "s", "t", "o">>,
       <<"v", "a", "l", "e">>,
       <<"c", "u", "e", "s", "t", "a">>,
       <<"p", "r", "e", "s", "u", "p", "u", "e", "s", "t", "o">> >>

\* is_location_query
LocationWords ==
    << <<"z", "o", "n", "a">>,
       <<"u", "b", "i", "c", "a", "c", "i", "U+00F3", "n">>,
       <<"d", "i", "r", "e", "c", "c", "i", "U+00F3", "n">>,
       <<"d", "U+00F3", "n", "d", "e">>,
       <<"b", "a", "r", "r", "i", "o">> >>

\* is_availability_query
AvailabilityWords ==
    << <<"d", "i", "s", "p", "o", "n", "i", "b", "l", "e">>,
       <<"l", "i", "b", "r", "e">>,
       <<"o", "c", "u", "p", "a", "d", "o">>,
       <<"a", "l", "q", "u", "i", "l", "e", "r">>,
       <<"v", "e", "n", "t", "a">> >>

\* is_visit_request
VisitWords ==
    << <<"v", "i", "s", "i", "t", "a", "r">>,
       <<"v", "e", "r">>,
       <<"c", "o", "n", "o", "c", "e", "r">>,
       <<"c", "i", "t", "a">>,
       <<"a", "g", "e", "n", "d", "a", "r">> >>

\* 'mil', 'k', 'entre', 'y' of the price patterns
Mil == <<"m", "i", "l">>
Kilo == <<"k">>
Entre == <<"e", "n", "t", "r", "e">>
YWord == <<"y">>

\* locations
Locations ==
    << <<"e", "q", "u", "i", "p", "e", "t", "r", "o", "l">>,
       <<"z", "o", "n", "a", " ", "n", "o", "r", "t", "e">>,
       <<"z", "o", "n", "a", " ", "s", "u", "r">>,
       <<"c", "e", "n", "t", "r", "o">>,
       <<"u", "r", "u", "b", "o">>,
       <<"l", "a", " ", "g", "u", "a", "r", "d", "i", "a">> >>

\* the property types, in the order of the if/elif chain
Casa == <<"c", "a", "s", "a">>
Departamento == <<"d", "e", "p", "a", "r", "t", "a", "m", "e", "n", "t", "o">>
Depto == <<"d", "e", "p", "t", "o">>
Terreno == <<"t", "e", "r", "r", "e", "n", "o">>
Oficina == <<"o", "f", "i", "c", "i", "n", "a">>

\* the words of the bedroom pattern
BedroomWords ==
    << <<"d", "o", "r", "m", "i", "t", "o", "r", "i", "o">>,
       <<"h", "a", "b", "i", "t", "a", "c", "i", "o", "n">>,
       <<"c", "u", "a", "r", "t", "o">> >>

\* the word of the bathroom pattern
BathroomWords ==
    << <<"b", "a", "U+00F1", "o">> >>

\* feature_keywords, in declaration order: keyword -> feature
FeatureKeywords ==
    << [keyword |-> <<"p", "i", "s", "c", "i", "n", "a">>,
        feature |-> <<"p", "i", "s", "c", "i", "n", "a">>],
       [keyword |-> <<"g", "a", "r", "a", "g", "e">>,
        feature |-> <<"g", "a", "r", "a", "g", "e">>],
       [keyword |-> <<"j", "a", "r", "d", "i", "n">>,
        feature |-> <<"j", "a", "r", "d", "U+00ED", "n">>],
       [keyword |-> <<"p", "a", "r", "r", "i", "l", "l", "e", "r", "o">>,
        feature |-> <<"p", "a", "r", "r", "i", "l", "l", "e", "r", "o">>],
       [keyword |-> <<"s", "e", "g", "u", "r", "i", "d", "a", "d">>,
        feature |-> <<"s", "e", "g", "u", "r", "i", "d", "a", "d", " ", "2", "4", "/", "7">>],
       [keyword |-> <<"a", "m", "o", "b", "l", "a", "d", "o">>,
        feature |-> <<"a", "m", "o", "b", "l", "a", "d", "o">>],
       [keyword |-> <<"b", "a", "l", "c", "o", "n">>,
        feature |-> <<"b", "a", "l", "c", "U+00F3", "n">>] >>

\* urgency 'alta'
UrgentWords ==
    << <<"u", "r", "g", "e", "n", "t", "e">>,
       <<"p", "r", "o", "n", "t", "o">>,
       <<"y", "a">>,
       <<"i", "n", "m", "e", "d", "i", "a", "t", "o">>,
       <<"h", "o", "y">> >>

\* urgency 'media'
SoonWords ==
    << <<"p", "r", "U+00F3", "x", "i", "m", "o", " ", "m", "e", "s">>,
       <<"p", "r", "U+00F3", "x", "i", "m", "a", " ", "s", "e", "m", "a", "n", "a">> >>

(***************************************************************************)
(* Inputs: a query text is a concatenation of fragments.                   *)
(***************************************************************************)

\* the characters of a fragment
FragmentText(f) ==
    CASE f = "entre " ->
           <<"e", "n", "t", "r", "e", " ">>
      [] f = " y " ->
           <<" ", "y", " ">>
      [] f = " mil" ->
           <<" ", "m", "i", "l">>
      [] f = " bs" ->
           <<" ", "b", "s">>
      [] f = "500" ->
           <<"5", "0", "0">>
      [] f = "800" ->
           <<"8", "0", "0">>
      [] f = "busco algo de " ->
           <<"b", "u", "s", "c", "o", " ", "a", "l", "g", "o", " ", "d", "e", " ">>
      [] f = "150" ->
           <<"1", "5", "0">>
      [] f = "k" ->
           <<"k">>
      [] f = "1.5" ->
           <<"1", ".", "5">>
      [] f = "urgente " ->
           <<"u", "r", "g", "e", "n", "t", "e", " ">>
      [] f = "HOY " ->
           <<"H", "O", "Y", " ">>
      [] f = "proximo mes " ->
           <<"p", "r", "U+00F3", "x", "i", "m", "o", " ", "m", "e", "s", " ">>
      [] f = "Proxima Semana " ->
           <<"P", "r", "U+00F3", "x", "i", "m", "a", " ", "S", "e", "m", "a", "n", "a", " ">>
      [] f = "playa " ->
           <<"p", "l", "a", "y", "a", " ">>
      [] f = "depto zona norte 2 cuartos 1 bano piscina " ->
           <<"d", "e", "p", "t", "o", " ", "z", "o", "n", "a", " ", "n", "o", "r", "t", "e", " ", "2", " ", "c", "u", "a", "r", "t", "o", "s", " ", "1", " ", "b", "a", "U+00F1", "o", " ", "p", "i", "s", "c", "i", "n", "a", " ">>
      [] f = "precio " ->
           <<"p", "r", "e", "c", "i", "o", " ">>
      [] f = "zona " ->
           <<"z", "o", "n", "a", " ">>
      [] f = "venta " ->
           <<"v", "e", "n", "t", "a", " ">>
      [] f = "ver " ->
           <<"v", "e", "r", " ">>
      [] f = "con" ->
           <<"c", "o", "n">>
      [] f = "CITA " ->
           <<"C", "I", "T", "A", " ">>

\* the text a sequence of fragments spells
RECURSIVE Text(_)
Text(fs) == IF fs = << >> THEN << >> ELSE FragmentText(Head(fs)) \o Text(Tail(fs))

(***************************************************************************)
(* analyze_client_preferences                                              *)
(***************************************************************************)

\* r'(\d+\.?\d*)\s*(?:mil|k)\s*(?:bs|bolivianos)?' matches at position i
ThousandsAt(q, i) ==
    LET e == NumberEnd(q, i)
        j == SpacesEnd(q, e)
    IN  e # 0 /\ (StartsWith(q, j, Mil) \/ StartsWith(q, j, Kilo))

\* r'(\d{4,})\s*(?:bs|bolivianos)?' matches at position i
FourDigitsAt(q, i) == DigitsEnd(q, i) - i >= 4

\* r'entre\s*(\d+\.?\d*)\s*y\s*(\d+\.?\d*)' matches at position i
RangeAt(q, i) ==
    LET a == SpacesEnd(q, i + Len(Entre))
        e1 == NumberEnd(q, a)
        y == SpacesEnd(q, e1)
        b == SpacesEnd(q, y + 1)
    IN  /\ StartsWith(q, i, Entre)
        /\ e1 # 0
        /\ StartsWith(q, y, YWord)
        /\ NumberEnd(q, b) # 0

\* re.findall(price_patterns[k], q): the groups of the leftmost match as a
\* sequence (one group: a str; two groups: a tuple), << >> for no match
FindFirst(k, q) ==
    IF k = 1 THEN
        LET i == Least({p \in 1..Len(q) : ThousandsAt(q, p)})
        IN  IF i = 0 THEN << >> ELSE <<SubSeq(q, i, NumberEnd(q, i) - 1)>>
    ELSE IF k = 2 THEN
        LET i == Least({p \in 1..Len(q) : FourDigitsAt(q, p)})
        IN  IF i = 0 THEN << >> ELSE <<SubSeq(q, i, DigitsEnd(q, i) - 1)>>
    ELSE
        LET i == Least({p \in 1..Len(q) : RangeAt(q, p)})
            a == SpacesEnd(q, i + Len(Entre))
            e1 == NumberEnd(q, a)
            b == SpacesEnd(q, SpacesEnd(q, e1) + 1)
        IN  IF i = 0 THEN << >>
            ELSE <<SubSeq(q, a, e1 - 1), SubSeq(q, b, NumberEnd(q, b) - 1)>>

\* the number of price_patterns
NumPatterns == 3

\* Scaled with the factor 1000 forgotten
ScaledNever(q, x) == x

\* x * (1000 if 'mil' in query_lower or 'k' in query_lower else 1)
Scaled(q, x) ==
    IF Contains(q, Mil) \/ Contains(q, Kilo) THEN Times1000(x) ELSE x

\* the budget_range a match gives: the explicit bounds of a tuple, the
\* band amount*0.8 .. amount*1.2 of a single amount
RangeOfMatch(q, m) ==
    IF Len(m) = 2 THEN
        [min |-> Scaled(q, ParseFloat(m[1])),
         max |-> Scaled(q, ParseFloat(m[2]))]
    ELSE
        LET amount == Scaled(q, ParseFloat(m[1]))
        IN  [min |-> Times08(amount), max |-> Times12(amount)]

\* for pattern in price_patterns: ... break  (from pattern k on)
RECURSIVE BudgetFrom(_, _)
BudgetFrom(q, k) ==
    IF k > NumPatterns THEN None
    ELSE IF FindFirst(k, q) # << >> THEN Some(RangeOfMatch(q, FindFirst(k, q)))
    ELSE BudgetFrom(q, k + 1)

BudgetRange(q) == BudgetFrom(q, 1)

\* [loc for loc in locations if loc in query_lower]
RECURSIVE Filter(_, _, _)
Filter(words, q, k) ==
    IF k > Len(words) THEN << >>
    ELSE (IF Contains(q, words[k]) THEN <<words[k]>> ELSE << >>)
         \o Filter(words, q, k + 1)

LocationPreferences(q) == Filter(Locations, q, 1)

\* the if/elif chain on the property type
PropertyType(q) ==
    IF Contains(q, Casa) THEN Some(Casa)
    ELSE IF Contains(q, Departamento) \/ Contains(q, Depto) THEN Some(Departamento)
    ELSE IF Contains(q, Terreno) THEN Some(Terreno)
    ELSE IF Contains(q, Oficina) THEN Some(Oficina)
    ELSE None

\* r'(\d+)\s*(?:w1|w2|...)' matches at position i
CountAt(q, i, words) ==
    /\ IsDigit(q, i)
    /\ \E k \in 1..Len(words) :
          StartsWith(q, SpacesEnd(q, DigitsEnd(q, i)), words[k])

\* re.search(r'(\d+)\s*(?:...)', q), then int(match.group(1))
CountBefore(q, words) ==
    LET i == Least({p \in 1..Len(q) : CountAt(q, p, words)})
    IN  IF i = 0 THEN None ELSE Some(ParseInt(SubSeq(q, i, DigitsEnd(q, i) - 1)))

\* for keyword, feature in feature_keywords.items(): ...
RECURSIVE Features(_, _)
Features(q, k) ==
    IF k > Len(FeatureKeywords) THEN << >>
    ELSE (IF Contains(q, FeatureKeywords[k].keyword)
          THEN <<FeatureKeywords[k].feature>> ELSE << >>)
         \o Features(q, k + 1)

\* Urgency with the near-term phrases tested before the urgent words
UrgencyMediaFirst(q) ==
    IF AnyIn(SoonWords, q) THEN "media"
    ELSE IF AnyIn(UrgentWords, q) THEN "alta"
    ELSE "baja"

\* the if/elif/else chain on urgency
Urgency(q) ==
    IF AnyIn(UrgentWords, q) THEN "alta"
    ELSE IF AnyIn(SoonWords, q) THEN "media"
    ELSE "baja"

\* the ClientPreferences the handler returns for a query
ExtractPreferences(query) ==
    LET query_lower == Lower(query)
    IN  [budget_range |-> BudgetRange(query_lower),
         location_preferences |-> LocationPreferences(query_lower),
         property_type |-> PropertyType(query_lower),
         bedrooms |-> CountBefore(query_lower, BedroomWords),
         bathrooms |-> CountBefore(query_lower, BathroomWords),
         additional_features |-> Features(query_lower, 1),
         urgency |-> Urgency(query_lower)]

\* POST /api/ia/analyze-preferences
AnalyzeClientPreferences ==
    /\ prefPc = "start"
    /\ preferences' = Some(ExtractPreferences(analysis.query))
    /\ prefPc' = "done"
    /\ UNCHANGED <<qTokens, analysis, queryVars>>

(***************************************************************************)
(* The requests to analyze_client_preferences.                             *)
(***************************************************************************)

\* longest budget phrase, in fragments
MaxBudgetFrags == 5
\* longest free-text query, in fragments
MaxWordFrags == 3
\* most digits in one query
MaxDigits == 7

BudgetFragments == {"entre ", " y ", " mil", " bs", "500", "800"}

WordFragments ==
    {"busco algo de ", "150", " mil", "k", "1.5", "urgente ", "HOY ",
     "proximo mes ", "Proxima Semana ", "playa ",
     "depto zona norte 2 cuartos 1 bano piscina "}

SeqsUpTo(S, n) == UNION {[1..k -> S] : k \in 0..n}

DigitCount(s) == Cardinality({i \in 1..Len(s) : s[i] \in Digits})

PrefInputs ==
    {fs \in SeqsUpTo(BudgetFragments, MaxBudgetFrags)
            \cup SeqsUpTo(WordFragments, MaxWordFrags) :
        DigitCount(Text(fs)) <= MaxDigits}

InitPrefs ==
    /\ qTokens \in PrefInputs
    /\ analysis = [query |-> Text(qTokens)]
    /\ prefPc = "start"
    /\ preferences = None
    /\ request = None
    /\ pc = "idle"
    /\ history = << >>
    /\ flags = None
    /\ result = None
    /\ outcome = None
    /\ calls = << >>

NextPrefs == AnalyzeClientPreferences

SpecPrefs == InitPrefs /\ [][NextPrefs]_vars

PrefsDone == prefPc = "done"
Prefs == preferences[1]

(***************************************************************************)
(* process_property_query                                                  *)
(***************************************************************************)

\* d.get(k, default) on a dict
Get(d, k, default) == IF k \in DOMAIN d THEN d[k] ELSE default

\* the fixed reply texts; a literal is one symbol of the text
VisitReply == <<"Entiendo que te gustaria visitar la propiedad. ...">>
PriceReply == <<"Te puedo ayudar con informacion sobre precios ...">>
LocationReply == <<"Tenemos propiedades en varias zonas de la ciudad. ...">>
GenericHead == <<"Soy tu asistente inmobiliario virtual. Puedo ayudarte con: ...">>
TopicsLead == <<"\nTambien puedo informarte sobre: ">>
GenericTail == <<"\n\nQue informacion necesitas?">>

ClienteLabel == <<"C", "l", "i", "e", "n", "t", "e", ":", " ">>
AsistenteLabel == <<"A", "s", "i", "s", "t", "e", "n", "t", "e", ":", " ">>

\* request.conversation_history[-5:] keeps this many messages
HistoryWindow == 5

\* sep.join(parts)
RECURSIVE Join(_, _)
Join(sep, parts) ==
    IF parts = << >> THEN << >>
    ELSE IF Len(parts) = 1 THEN parts[1]
    ELSE parts[1] \o sep \o Join(sep, Tail(parts))

\* LastMessages taking the first messages: conversation_history[:5]
FirstMessages(h) == SubSeq(h, 1, Min(Len(h), HistoryWindow))

\* conversation_history[-5:]
LastMessages(h) == SubSeq(h, Max(1, Len(h) - HistoryWindow + 1), Len(h))

\* history_lines after the loop over the messages
RECURSIVE HistoryLines(_)
HistoryLines(msgs) ==
    IF msgs = << >> THEN << >>
    ELSE << ClienteLabel \o Get(Head(msgs), "question", << >>),
            AsistenteLabel \o Get(Head(msgs), "answer", << >>) >>
         \o HistoryLines(Tail(msgs))

\* the local `history` built from request.conversation_history
BuildHistory(h) ==
    IF h # << >> THEN Join(<<"\n">>, HistoryLines(LastMessages(h))) ELSE << >>

IsPriceQuery(q) == AnyIn(PriceWords, q)
IsLocationQuery(q) == AnyIn(LocationWords, q)
IsAvailabilityQuery(q) == AnyIn(AvailabilityWords, q)
\* IsVisitRequest giving way to a price question
IsVisitRequestUnlessPrice(q) == AnyIn(VisitWords, q) /\ ~AnyIn(PriceWords, q)
IsVisitRequest(q) == AnyIn(VisitWords, q)

\* the four intent flags of a query
Intent(query) ==
    LET query_lower == Lower(query)
    IN  [is_price_query |-> IsPriceQuery(query_lower),
         is_location_query |-> IsLocationQuery(query_lower),
         is_availability_query |-> IsAvailabilityQuery(query_lower),
         is_visit_request |-> IsVisitRequest(query_lower)]

\* PropertyResponse(...), the fields not given taking their defaults
PropertyResponse(response, suggestions, requires_human, metadata) ==
    [kind |-> "PropertyResponse",
     success |-> TRUE,
     response |-> response,
     suggestions |-> suggestions,
     properties_mentioned |-> << >>,
     requires_human |-> requires_human,
     metadata |-> metadata]

\* raise HTTPException(status_code=500, detail=str(e))
HTTPException(e) == [kind |-> "HTTPException", status_code |-> 500, detail |-> e]

\* format_topics_inline(suggestions): the titles joined into one phrase
\* (a total function of the titles)
FormatTopicsInline(suggestions) == Join(<<",", " ">>, suggestions)

\* FallbackReply with the location template tested before the price one
FallbackReplyLocationFirst(f, suggestions) ==
    IF f.is_location_query THEN LocationReply
    ELSE IF f.is_price_query THEN PriceReply
    ELSE GenericHead \o GenericTail

\* the reply when no context was used
FallbackReply(f, suggestions) ==
    IF f.is_price_query THEN PriceReply
    ELSE IF f.is_location_query THEN LocationReply
    ELSE LET topics_line ==
                 IF suggestions # << >> THEN FormatTopicsInline(suggestions)
                 ELSE << >>
         IN  GenericHead
             \o (IF topics_line # << >> THEN TopicsLead \o topics_line ELSE << >>)
             \o GenericTail

\* the record of one upstream call; raised is None or Some(the failure)
ContextCall(raised) ==
    [service |-> "ask_mistral_with_context", query |-> request.query,
     history |-> history, raised |-> raised]
SuggestionCall(raised) ==
    [service |-> "get_suggested_titles", query |-> request.query,
     max_suggestions |-> 3, raised |-> raised]

\* what the upstream services may answer
Answer1 == <<"E", "n", " ", "U", "r", "u", "b", "U+00F3">>
Answer2 == PriceReply
ContextResults ==
    {[answer |-> Answer1, used_context |-> TRUE],
     [answer |-> Answer2, used_context |-> TRUE],
     [used_context |-> TRUE],
     [answer |-> Answer1, used_context |-> FALSE],
     [answer |-> Answer1]}
Title1 == <<"C", "a", "s", "a", "s">>
Title2 == <<"L", "o", "t", "e", "s">>
SuggestionResults == {<< >>, <<Title1, Title2>>}
Failures == {"connection refused", "timeout"}

\* lines 65-98: history, intent flags, the visit hand-off
Classify ==
    /\ pc = "start"
    /\ history' = BuildHistory(request.conversation_history)
    /\ flags' = Some(Intent(request.query))
    /\ IF Intent(request.query).is_visit_request
       THEN /\ outcome' = Some(PropertyResponse(VisitReply, << >>, TRUE,
                                                [intent |-> "visit_request"]))
            /\ pc' = "done"
       ELSE /\ outcome' = outcome
            /\ pc' = "ask"
    /\ UNCHANGED <<qTokens, request, result, calls, prefVars>>

\* lines 101-107: ask_mistral_with_context returns
AskContextReturns ==
    /\ pc = "ask"
    /\ \E r \in ContextResults :
          /\ result' = Some(r)
          /\ pc' = IF Get(r, "used_context", FALSE) THEN "answer" ELSE "fallback"
    /\ calls' = Append(calls, ContextCall(None))
    /\ UNCHANGED <<qTokens, request, history, flags, outcome, prefVars>>

\* AskContextRaises degrading to the templated reply instead of failing
AskContextRaisesDegraded ==
    /\ pc = "ask"
    /\ \E e \in Failures : calls' = Append(calls, ContextCall(Some(e)))
    /\ result' = Some([used_context |-> FALSE])
    /\ pc' = "fallback"
    /\ UNCHANGED <<qTokens, request, history, flags, outcome, prefVars>>

\* lines 101-104, 153-155: ask_mistral_with_context raises
AskContextRaises ==
    /\ pc = "ask"
    /\ \E e \in Failures :
          /\ outcome' = Some(HTTPException(e))
          /\ calls' = Append(calls, ContextCall(Some(e)))
    /\ pc' = "done"
    /\ UNCHANGED <<qTokens, request, history, flags, result, prefVars>>

\* lines 109-142: get_suggested_titles returns, no context was used
SuggestFallbackReturns ==
    /\ pc = "fallback"
    /\ \E s \in SuggestionResults :
          outcome' = Some(PropertyResponse(FallbackReply(flags[1], s), s, FALSE,
                                           [used_context |-> FALSE]))
    /\ calls' = Append(calls, SuggestionCall(None))
    /\ pc' = "done"
    /\ UNCHANGED <<qTokens, request, history, flags, result, prefVars>>

\* SuggestAnswerReturns preferring the keyword template to the answer
SuggestAnswerReturnsTemplated ==
    /\ pc = "answer"
    /\ \E s \in SuggestionResults :
          outcome' = Some(PropertyResponse(
                              IF flags[1].is_price_query THEN PriceReply
                              ELSE Get(result[1], "answer", << >>),
                              s, FALSE, [used_context |-> TRUE]))
    /\ calls' = Append(calls, SuggestionCall(None))
    /\ pc' = "done"
    /\ UNCHANGED <<qTokens, request, history, flags, result, prefVars>>

\* lines 145-151: get_suggested_titles returns, context was used
SuggestAnswerReturns ==
    /\ pc = "answer"
    /\ \E s \in SuggestionResults :
          outcome' = Some(PropertyResponse(Get(result[1], "answer", << >>), s,
                                           FALSE, [used_context |-> TRUE]))
    /\ calls' = Append(calls, SuggestionCall(None))
    /\ pc' = "done"
    /\ UNCHANGED <<qTokens, request, history, flags, result, prefVars>>

\* SuggestRaises calling the service again (up to three calls) before failing
SuggestRaisesRetries ==
    /\ pc \in {"fallback", "answer"}
    /\ \E e \in Failures :
          /\ calls' = Append(calls, SuggestionCall(Some(e)))
          /\ IF Len(calls) < 3
             THEN pc' = pc /\ outcome' = outcome
             ELSE pc' = "done" /\ outcome' = Some(HTTPException(e))
    /\ UNCHANGED <<qTokens, request, history, flags, result, prefVars>>

\* lines 109 or 148, 153-155: get_suggested_titles raises
SuggestRaises ==
    /\ pc \in {"fallback", "answer"}
    /\ \E e \in Failures :
          /\ outcome' = Some(HTTPException(e))
          /\ calls' = Append(calls, SuggestionCall(Some(e)))
    /\ pc' = "done"
    /\ UNCHANGED <<qTokens, request, history, flags, result, prefVars>>

(***************************************************************************)
(* The requests to process_property_query.                                 *)
(***************************************************************************)

\* longest query, in fragments
MaxQueryFrags == 3
\* longest conversation history, in messages
MaxHist == 6

QueryFragments == {"precio ", "zona ", "venta ", "ver ", "con", "CITA "}

IndexChar(i) ==
    CASE i = 1 -> "1" [] i = 2 -> "2" [] i = 3 -> "3" [] i = 4 -> "4"
      [] i = 5 -> "5" [] i = 6 -> "6" [] i = 7 -> "7" [] i = 8 -> "8"
      [] OTHER -> "9"

QuestionAt(i) == <<"q", IndexChar(i)>>
AnswerAt(i) == <<"a", IndexChar(i)>>

\* the i-th message of a conversation; some lack one of the two keys
MessageAt(i) ==
    IF i % 4 = 2 THEN [answer |-> AnswerAt(i)]
    ELSE IF i % 4 = 3 THEN [question |-> QuestionAt(i)]
    ELSE [question |-> QuestionAt(i), answer |-> AnswerAt(i)]

Conversation(n) == [i \in 1..n |-> MessageAt(i)]

Init ==
    /\ qTokens \in SeqsUpTo(QueryFragments, MaxQueryFrags)
    /\ \E n \in 0..MaxHist :
          request = [query |-> Text(qTokens), conversation_history |-> Conversation(n)]
    /\ pc = "start"
    /\ history = << >>
    /\ flags = None
    /\ result = None
    /\ outcome = None
    /\ calls = << >>
    /\ analysis = None
    /\ prefPc = "idle"
    /\ preferences = None

Next ==
    \/ Classify
    \/ AskContextReturns
    \/ AskContextRaises
    \/ SuggestFallbackReturns
    \/ SuggestAnswerReturns
    \/ SuggestRaises

Spec == Init /\ [][Next]_vars

(***************************************************************************)
(* Properties of process_property_query.                                   *)
(***************************************************************************)

Done == pc = "done"
Outcome == outcome[1]
Responded == Done /\ Outcome.kind = "PropertyResponse"
QueryLower == Lower(request.query)
HasVisitWord == AnyIn(VisitWords, QueryLower)
HasPriceWord == AnyIn(PriceWords, QueryLower)
HasLocationWord == AnyIn(LocationWords, QueryLower)
HasAvailabilityWord == AnyIn(AvailabilityWords, QueryLower)
CallsTo(service) == {i \in 1..Len(calls) : calls[i].service = service}
ContextUsed == result # None /\ Get(result[1], "used_context", FALSE)

\* C1: a query whose lower-cased text contains a visit-word is handed to a
\* human (requires_human, metadata.intent = "visit_request") and neither
\* upstream service is called, whatever other keywords it contains.
VisitHandsOff ==
    (pc # "start" /\ HasVisitWord) =>
        /\ Responded
        /\ Outcome.requires_human = TRUE
        /\ Outcome.metadata = [intent |-> "visit_request"]
        /\ calls = << >>

VisitHandsOffWitness ==
    /\ Done
    /\ HasVisitWord /\ HasPriceWord /\ HasLocationWord
    /\ Outcome.requires_human = TRUE
    /\ calls = << >>

\* C2: without a visit-word, when the context service answered with
\* used_context = true, the response returned is that answer verbatim, with
\* requires_human = false and metadata = {used_context: true}, whatever
\* price, location or availability words the query contains.
ContextAnswerVerbatim ==
    (Responded /\ ~HasVisitWord /\ ContextUsed /\ "answer" \in DOMAIN result[1]) =>
        /\ Outcome.response = result[1].answer
        /\ Outcome.requires_human = FALSE
        /\ Outcome.metadata = [used_context |-> TRUE]

ContextAnswerVerbatimWitness ==
    /\ Responded /\ ~HasVisitWord /\ ContextUsed
    /\ HasPriceWord /\ HasLocationWord
    /\ Outcome.response = Answer1

\* C3: without a visit-word, when the context service reports that no
\* context was used, the reply is the price template if a price-word is
\* present, else the location template if a location-word is present, else
\* the generic template (also for a query with availability-words only).
IsGenericReply(text) ==
    /\ Len(text) >= 2
    /\ SubSeq(text, 1, 1) = GenericHead
    /\ SubSeq(text, Len(text), Len(text)) = GenericTail

FallbackPrecedence ==
    (Responded /\ ~HasVisitWord /\ result # None /\ ~ContextUsed) =>
        /\ Outcome.metadata = [used_context |-> FALSE]
        /\ IF HasPriceWord THEN Outcome.response = PriceReply
           ELSE IF HasLocationWord THEN Outcome.response = LocationReply
           ELSE IsGenericReply(Outcome.response)

FallbackPrecedenceWitness ==
    /\ Responded /\ ~HasVisitWord /\ result # None /\ ~ContextUsed
    /\ HasPriceWord /\ HasLocationWord /\ HasAvailabilityWord
    /\ Outcome.response = PriceReply

\* C6: when the context service or the suggestion service raises, the
\* request ends with HTTP 500 carrying the failure description, never with
\* a PropertyResponse; the failed call is the last upstream call made.
FailureIsError ==
    \A i \in 1..Len(calls) :
        calls[i].raised # None =>
            /\ i = Len(calls)
            /\ Done
            /\ Outcome = [kind |-> "HTTPException", status_code |-> 500,
                          detail |-> calls[i].raised[1]]

FailureIsErrorWitness ==
    /\ Done
    /\ Len(calls) = 2
    /\ calls[1].raised = None
    /\ calls[2].raised = Some("timeout")
    /\ ContextUsed
    /\ Outcome.kind = "HTTPException"

\* C9: in one request the context service is called at most once and the
\* suggestion service at most twice, on every path.
CallBudget ==
    /\ Cardinality(CallsTo("ask_mistral_with_context")) <= 1
    /\ Cardinality(CallsTo("get_suggested_titles")) <= 2

CallBudgetWitness ==
    /\ Done
    /\ Cardinality(CallsTo("ask_mistral_with_context")) = 1
    /\ Cardinality(CallsTo("get_suggested_titles")) = 1

\* C10: the history string passed to the context service is made of the
\* last min(n, 5) messages of the n in the request, oldest first, each giving
\* its customer line and then its assistant line (2*min(n,5) lines), and is
\* empty for an empty conversation history.
Conv == request.conversation_history
Kept == Min(Len(Conv), 5)
ExpectedLine(j) ==
    LET msg == Conv[Len(Conv) - Kept + ((j + 1) \div 2)]
    IN  IF j % 2 = 1 THEN ClienteLabel \o Get(msg, "question", << >>)
        ELSE AsistenteLabel \o Get(msg, "answer", << >>)
LineBreaks(text) == Cardinality({i \in 1..Len(text) : text[i] = "\n"})

HistoryWindowed ==
    \A i \in CallsTo("ask_mistral_with_context") :
        /\ calls[i].history = Join(<<"\n">>, [j \in 1..(2 * Kept) |-> ExpectedLine(j)])
        /\ Kept = 0 => calls[i].history = << >>
        /\ Kept > 0 => LineBreaks(calls[i].history) + 1 = 2 * Kept

HistoryWindowedWitness ==
    /\ Len(Conv) = 6
    /\ CallsTo("ask_mistral_with_context") = {1}
    /\ LineBreaks(calls[1].history) = 9
    /\ StartsWith(calls[1].history, 1, ClienteLabel \o << >> \o <<"\n">> \o AsistenteLabel \o AnswerAt(2))

(***************************************************************************)
(* Properties of analyze_client_preferences.                               *)
(***************************************************************************)

\* a <= b
LessEq(a, b) ==
    LET m == Max(a.e, b.e)
    IN  a.n * Pow10(m - a.e) <= b.n * Pow10(m - b.e)

\* the float of a natural number
Float(k) == Normal([n |-> k, e |-> 0])

NumberFragments == {"500", "800", "150", "1.5"}
HasDigits(f) == DigitCount(FragmentText(f)) > 0

\* the budget a single amount of "N mil" stands for: 0.8*N*1000 .. 1.2*N*1000
BandOf(f) ==
    CASE f = "500" -> [min |-> Float(400000), max |-> Float(600000)]
      [] f = "800" -> [min |-> Float(640000), max |-> Float(960000)]
      [] f = "150" -> [min |-> Float(120000), max |-> Float(180000)]
      [] f = "1.5" -> [min |-> Float(1200), max |-> Float(1800)]

\* the value of a number fragment times 1000
ThousandsOf(f) ==
    CASE f = "500" -> Float(500000)
      [] f = "800" -> Float(800000)
      [] f = "150" -> Float(150000)
      [] f = "1.5" -> Float(1500)

\* C4: a query "entre X y Y mil" gives budget_range = {min: X*1000,
\* max: Y*1000}, both bounds scaled by 1000 and no 20% band applied.
ExplicitRangeScaled ==
    \A x, y \in {"500", "800"} :
        (PrefsDone /\ qTokens = <<"entre ", x, " y ", y, " mil">>) =>
            Prefs.budget_range = Some([min |-> ThousandsOf(x), max |-> ThousandsOf(y)])

\* C5: whenever a budget_range is returned, its min is at most its max.
BudgetOrdered ==
    (PrefsDone /\ Prefs.budget_range # None) =>
        LessEq(Prefs.budget_range[1].min, Prefs.budget_range[1].max)

\* C7: a query stating a single amount as "N mil" (optionally followed by
\* bs) and no other number gives budget_range = {min: 0.8*N*1000,
\* max: 1.2*N*1000}.
SingleAmountBand ==
    \A i \in 1..(Len(qTokens) - 1) :
        ( /\ PrefsDone
          /\ qTokens[i] \in NumberFragments
          /\ qTokens[i + 1] = " mil"
          /\ \A j \in 1..Len(qTokens) : HasDigits(qTokens[j]) => j = i ) =>
            Prefs.budget_range = Some(BandOf(qTokens[i]))

SingleAmountBandWitness ==
    /\ PrefsDone
    /\ qTokens = <<"busco algo de ", "150", " mil">>
    /\ Prefs.budget_range = Some([min |-> Float(120000), max |-> Float(180000)])

\* C8: every result has urgency alta, media or baja: alta when the
\* lower-cased query contains an urgent word (even beside a near-term
\* phrase), otherwise media when it contains a near-term phrase, otherwise
\* baja.
UrgencyTiers ==
    PrefsDone =>
        LET q == Lower(analysis.query)
        IN  /\ Prefs.urgency \in {"alta", "media", "baja"}
            /\ Prefs.urgency = "alta" <=> AnyIn(UrgentWords, q)
            /\ Prefs.urgency = "media" <=>
                   (~AnyIn(UrgentWords, q) /\ AnyIn(SoonWords, q))

UrgencyTiersWitness ==
    /\ PrefsDone
    /\ AnyIn(UrgentWords, Lower(analysis.query))
    /\ AnyIn(SoonWords, Lower(analysis.query))
    /\ Prefs.urgency = "alta"

====
